---------------------------- MODULE Spec2Model ----------------------------
(***************************************************************************)
(* State-machine model of BCEfficiencyFitter                               *)
(* (src/models/base/BCEfficiencyFitter.cxx).                               *)
(*                                                                         *)
(* Numbers.  Bin contents are small naturals.  Bin edges lie on an integer *)
(* grid; on top of the grid position an axis carries a rounding offset     *)
(* `jit', counted in units of std::numeric_limits<double>::epsilon(), so   *)
(* that two edges differ by more than epsilon iff their grid positions     *)
(* differ or their offsets differ by more than one unit.  Efficiencies and *)
(* integrals are exact rationals with the common denominator EffDen.       *)
(***************************************************************************)
EXTENDS Integers, Naturals, Sequences, FiniteSets, TLC

VARIABLES fHistogram1,      \* TH1D* fHistogram1 (NullHist = null pointer)
          fHistogram2,      \* TH1D* fHistogram2
          fDataSet,         \* the BCDataSet installed by SetDataSet
          fFitFunctionIndex,\* <<x, y>> set by SetFitFunctionIndices
          fFitFunction,     \* std::vector<TF1*>: element c + 1 is fFitFunction[c]
          fFlagIntegration, \* integrate over the bin, or interpolate its edges
          fMCMCCurrentChain,\* index of the chain being evaluated, -1 outside MCMC
          fRandom,          \* state of the random number generator fRandom
          fRandomSeed,      \* the seed fRandom was last given
          fPValue,          \* the p-value stored by Fit
          call,             \* the public call in progress or just returned
                            \* (op = "idle": the caller has taken the result)
          pv,               \* locals of the running CalculatePValueFast
          seen,             \* the p-value result the caller kept from an earlier run
          thr               \* the sampling chains' threads (SpecChains)

histVars == <<fHistogram1, fHistogram2, fDataSet, fFitFunctionIndex>>

funcVars == <<fFitFunction, fFlagIntegration, fMCMCCurrentChain>>

rndVars == <<fRandom, fRandomSeed>>

vars == <<histVars, funcVars, rndVars, fPValue, call, pv, seen, thr>>

-----------------------------------------------------------------------------
(* Bounds of the model *)

MaxBins == 2

MaxCount == 1

(* Efficiencies, function values and integrals are multiples of 1/EffDen. *)
EffDen == 3

(* A model function has the parameters <<p0, p1>>, 0 <= p0 <= MaxP0 and    *)
(* 0 <= p1 <= MaxP1.                                                       *)
MaxP0 == 2

MaxP1 == 1

(* CalculatePValueFast runs at most MaxIter rounds. *)
MaxIter == 2

(* The sampling chains are 0 .. MaxChain. *)
MaxChain == 1

(* The bin widths and the rounding offsets (in epsilons) an axis can have. *)
Widths == {1, 2}

Jitters == {0, 1, 2}

-----------------------------------------------------------------------------
(* TH1D: the part of a ROOT histogram the fitter reads.  content[i + 1] is *)
(* GetBinContent(i) for i = 0 (the underflow bin) .. nbins; the overflow   *)
(* bin is never read by the fitter.                                        *)

NullHist == [nbins |-> 0, width |-> 0, jit |-> 0, content |-> <<>>]

Contents(n, under) ==
    {c \in [1..(n + 1) -> 0..MaxCount] : c[1] \in under}

MakeHist(n, w, j, c) == [nbins |-> n, width |-> w, jit |-> j, content |-> c]

(* All histograms with the given axes and underflow contents. *)
AllHists(ws, js, under) ==
    UNION {{MakeHist(n, w, j, c) : w \in ws, j \in js, c \in Contents(n, under)}
           : n \in 1..MaxBins}

(* Histograms whose bins are all full, on every axis: the edge cases. *)
FullHists(ws, js) ==
    UNION {{MakeHist(n, w, j, [i \in 1..(n + 1) |-> IF i = 1 THEN 0 ELSE MaxCount])
            : w \in ws, j \in js} : n \in 1..MaxBins}

GetNbinsX(h) == h.nbins

GetBinContent(h, i) == h.content[i + 1]

(* Grid position of the low edge of bin i (i = nbins + 1: the axis' Xmax). *)
GetBinLowEdge(h, i) == (i - 1) * h.width

GetBinUpEdge(h, i) == i * h.width

GetXmin(h) == GetBinLowEdge(h, 1)

GetXmax(h) == GetBinLowEdge(h, h.nbins + 1)

Abs(x) == IF x < 0 THEN -x ELSE x

(* fabs(a - b) > epsilon for the edges at grid positions a, b of h1, h2 *)
DiffersByMoreThanEpsilon(h1, a, h2, b) ==
    \/ a # b
    \/ Abs(h1.jit - h2.jit) > 1

-----------------------------------------------------------------------------
(* SetHistograms, lines 62-115 *)

(* The loop of lines 77-86 from bin i on: the first check that fails. *)
RECURSIVE CheckBins(_, _, _)
CheckBins(hist1, hist2, i) ==
    IF i > GetNbinsX(hist1) THEN "ok"
    ELSE IF DiffersByMoreThanEpsilon(hist1, GetBinLowEdge(hist1, i),
                                     hist2, GetBinLowEdge(hist2, i))
         THEN "bins"
    ELSE IF GetBinContent(hist1, i) < GetBinContent(hist2, i) THEN "entries"
    ELSE CheckBins(hist1, hist2, i + 1)

(* The check of line 88 left out. *)
XmaxAgrees_Unchecked(hist1, hist2) == TRUE

(* Line 88: the check of the upper edge of the last bin passes. *)
XmaxAgrees(hist1, hist2) ==
    ~DiffersByMoreThanEpsilon(hist1, GetXmax(hist1), hist2, GetXmax(hist2))

(* The error SetHistograms reports, "ok" when it reports none. *)
SetHistogramsCheck(hist1, hist2) ==
    IF hist1 = NullHist \/ hist2 = NullHist THEN "null"
    ELSE IF GetNbinsX(hist1) # GetNbinsX(hist2) THEN "nbins"
    ELSE IF CheckBins(hist1, hist2, 1) # "ok" THEN CheckBins(hist1, hist2, 1)
    ELSE IF ~XmaxAgrees(hist1, hist2) THEN "xmax"
    ELSE "ok"

NoDataSet == [npoints |-> -1, lo |-> 0, hi |-> 0]

(* Lines 100-108: a data set of nbins empty points, bounded by the axis. *)
NewDataSet(h) == [npoints |-> GetNbinsX(h), lo |-> GetXmin(h), hi |-> GetXmax(h)]

-----------------------------------------------------------------------------
(* TF1: the model function f(x) = (p0 + 2 p1 x) / EffDen of an instance    *)
(* with the parameters par = <<p0, p1>>.  Values are numerators over       *)
(* EffDen.                                                                 *)

Pars == {<<p0, p1>> : p0 \in 0..MaxP0, p1 \in 0..MaxP1}

NullFunc == [null |-> TRUE, par |-> <<0, 0>>]

MakeFunc(par) == [null |-> FALSE, par |-> par]

Funcs == {MakeFunc(par) : par \in Pars}

SetParameters(f, params) == [f EXCEPT !.par = params]

Eval(f, x) == f.par[1] + 2 * f.par[2] * x

Integral(f, xmin, xmax) ==
    f.par[1] * (xmax - xmin) + f.par[2] * (xmax * xmax - xmin * xmin)

-----------------------------------------------------------------------------
(* double: a value num/den with den >= 0, kept in lowest terms.  den = 0   *)
(* is +infinity (num > 0), -infinity (num < 0) or NaN (num = 0), which is  *)
(* what IEEE-754 division and multiplication give.                         *)

RECURSIVE Gcd(_, _)
Gcd(a, b) == IF b = 0 THEN a ELSE Gcd(b, a % b)

Sign(x) == IF x > 0 THEN 1 ELSE IF x < 0 THEN -1 ELSE 0

Double(num, den) ==
    IF den = 0 THEN [num |-> Sign(num), den |-> 0]
    ELSE LET g == Gcd(Abs(num), Abs(den))
         IN  [num |-> (Sign(den) * num) \div g, den |-> Abs(den) \div g]

NaN == [num |-> 0, den |-> 0]

Infinity == [num |-> 1, den |-> 0]

IsNaN(a) == a.num = 0 /\ a.den = 0

IsFinite(a) == a.den > 0

Mul(a, b) == Double(a.num * b.num, a.den * b.den)

(* A zero divisor is +0: x / 0 is the infinity of the sign of x, 0 / 0 NaN *)
Div(a, b) ==
    Double(a.num * b.den * (IF b.num < 0 THEN -1 ELSE 1), a.den * Abs(b.num))

Less(a, b) ==
    /\ ~IsNaN(a)
    /\ ~IsNaN(b)
    /\ IF a.den = 0 /\ b.den = 0 THEN a.num < b.num
       ELSE IF a.den = 0 THEN a.num < 0
       ELSE IF b.den = 0 THEN b.num > 0
       ELSE a.num * b.den < b.num * a.den

(* An efficiency with the numerator y as a double. *)
Eff(y) == Double(y, EffDen)

-----------------------------------------------------------------------------
(* fRandom: a deterministic generator.  Rndm() advances the state and      *)
(* returns a number of (0, 1) that the new state determines.               *)

RndmStates == 0..7

RndmNext(s) == (5 * s + 3) % 8

RndmValue(s) == Double(2 * s + 1, 16)

Half == Double(1, 2)

-----------------------------------------------------------------------------
(* LogLikelihood, lines 126-171, and FitFunction, lines 174-181 *)

(* Line 128 *)
ChainIndex(chain) == IF chain >= 0 THEN chain ELSE 0

(* fFitFunction[c] is an element of the vector *)
InVector(c) == c + 1 <= Len(fFitFunction)

(* Lines 159-164: the efficiency the model predicts for bin ibin *)
BinEfficiency(f, h, ibin, integrate) ==
    LET xmin == GetBinLowEdge(h, ibin)
        xmax == GetBinUpEdge(h, ibin)
    IN  IF integrate
        THEN Integral(f, xmin, xmax) \div (xmax - xmin)
        ELSE (Eval(f, xmax) + Eval(f, xmin)) \div 2

(* Lines 148-168: the sum of LogApproxBinomial(n, k, eff) over the bins,   *)
(* kept as the sequence of its terms <<n, k, eff>>.                        *)
LogLikelihoodTerms(f, integrate) ==
    [ibin \in 1..GetNbinsX(fHistogram1) |->
        <<GetBinContent(fHistogram1, ibin), GetBinContent(fHistogram2, ibin),
          BinEfficiency(f, fHistogram1, ibin, integrate)>>]

NoValue == [kind |-> "none", terms |-> <<>>]

NaNValue == [kind |-> "nan", terms |-> <<>>]

Crash == [kind |-> "crash", terms |-> <<>>]

Value(terms) == [kind |-> "value", terms |-> terms]

-----------------------------------------------------------------------------
(* The call record and the locals of CalculatePValueFast *)

Idle == [op |-> "idle", hist1 |-> NullHist, hist2 |-> NullHist, func |-> NullFunc,
         par |-> <<0, 0>>, ret |-> TRUE, val |-> NoValue, pc |-> "returned",
         steps |-> {}]

PVIdle == [pc |-> "idle", par |-> <<0, 0>>, nIterations |-> 0, nbins |-> 0,
           histogram |-> <<>>, expectation |-> <<>>, terms |-> <<>>,
           ratio |-> Double(1, 1), counter_pvalue |-> 0, iiter |-> 0, ibin |-> 0,
           ret |-> FALSE, pvalue |-> Double(0, 1), divisor |-> 1,
           start |-> [fRandom |-> 0, fRandomSeed |-> 0, par0 |-> <<0, 0>>]]

NotSeen == [par |-> <<0, 0>>, nIterations |-> -1, fRandomSeed |-> 0,
            pvalue |-> Double(0, 1), ret |-> FALSE]

-----------------------------------------------------------------------------
(* The fitter's histogram state after SetHistograms(hist1, hist2). *)
SetHistogramsEffect(hist1, hist2) ==
    IF SetHistogramsCheck(hist1, hist2) = "ok"
    THEN /\ fHistogram1' = hist1
         /\ fHistogram2' = hist2
         /\ fDataSet' = NewDataSet(hist1)
         /\ fFitFunctionIndex' = <<0, 1>>
    ELSE UNCHANGED histVars

SetHistograms(hist1, hist2) ==
    /\ SetHistogramsEffect(hist1, hist2)
    /\ call' = [Idle EXCEPT !.op = "SetHistograms", !.hist1 = hist1, !.hist2 = hist2,
                            !.ret = (SetHistogramsCheck(hist1, hist2) = "ok")]
    /\ UNCHANGED <<funcVars, rndVars, fPValue, pv, seen, thr>>

(* The caller takes the result of the call that returned. *)
Return ==
    /\ call.op # "idle"
    /\ call.pc = "returned"
    /\ call' = Idle
    /\ pv' = PVIdle
    /\ UNCHANGED <<histVars, funcVars, rndVars, fPValue, seen, thr>>

-----------------------------------------------------------------------------
(* LogLikelihood(params), lines 126-171, called by the user of the fitter. *)
(* fFitFunction[c] outside the vector is undefined behaviour: the read     *)
(* yields a null pointer (the call returns NaN) or the process crashes.    *)
LogLikelihood(params) ==
    LET c == ChainIndex(fMCMCCurrentChain)
        begun == [Idle EXCEPT !.op = "LogLikelihood", !.par = params]
    IN  /\ IF ~InVector(c)
           THEN /\ \E outcome \in {NaNValue, Crash} :
                      call' = [begun EXCEPT !.val = outcome,
                                  !.pc = IF outcome = Crash THEN "crashed"
                                                            ELSE "returned"]
                /\ UNCHANGED fFitFunction
           ELSE IF fFitFunction[c + 1].null
                   \/ fHistogram1 = NullHist \/ fHistogram2 = NullHist
           THEN /\ call' = [begun EXCEPT !.val = NaNValue]
                /\ UNCHANGED fFitFunction
           ELSE /\ fFitFunction' =
                      [fFitFunction EXCEPT ![c + 1] = SetParameters(@, params)]
                /\ call' = [begun EXCEPT
                      !.steps = {"SetParameters", "GetBinContent"},
                      !.val = Value(LogLikelihoodTerms(fFitFunction'[c + 1],
                                                       fFlagIntegration))]
        /\ UNCHANGED <<histVars, fFlagIntegration, fMCMCCurrentChain, rndVars,
                       fPValue, pv, seen, thr>>

-----------------------------------------------------------------------------
(* CalculatePValueFast, lines 318-433, with no callback (lines 318-322).   *)
(* Entry ibin = 0 .. nbins - 1 of histogram and expectation is element     *)
(* ibin + 1 of the sequences.                                              *)

(* Lines 353, 356 and 371: the histogram bin whose content entry ibin uses *)
ContentBin(ibin) == ibin

(* Lines 346-347: the histogram bin whose edges entry ibin uses *)
EdgeBin(ibin) == ibin + 1

(* Line 350: the number of expected events per trial of entry ibin *)
StartYexp(f, h, ibin) ==
    Integral(f, GetBinLowEdge(h, EdgeBin(ibin)), GetBinUpEdge(h, EdgeBin(ibin)))

(* Lines 325-341 *)
PVBegin(par, nIterations) ==
    IF fHistogram1 = NullHist \/ fHistogram2 = NullHist
    THEN [PVIdle EXCEPT !.pc = "returned", !.par = par,
                        !.nIterations = nIterations, !.ret = FALSE]
    ELSE [PVIdle EXCEPT !.pc = "start", !.par = par, !.nIterations = nIterations,
             !.nbins = GetNbinsX(fHistogram1),
             !.histogram = [i \in 1..GetNbinsX(fHistogram1) |-> 0],
             !.expectation = [i \in 1..GetNbinsX(fHistogram1) |-> 0],
             !.start = [fRandom |-> fRandom, fRandomSeed |-> fRandomSeed,
                        par0 |-> IF InVector(0) THEN fFitFunction[1].par
                                                ELSE <<0, 0>>]]

(* Lines 344-364: one pass of the loop that defines the starting           *)
(* distribution.  fFitFunction[0] of an empty vector, or a null element,   *)
(* is undefined behaviour: the process crashes.                            *)
PVDefineBin ==
    /\ pv.pc = "start"
    /\ pv' =
         IF ~InVector(0) \/ (InVector(0) /\ fFitFunction[1].null)
         THEN [pv EXCEPT !.pc = "crashed"]
         ELSE LET ibin == pv.ibin
                  yexp == StartYexp(fFitFunction[1], fHistogram1, ibin)
                  n == GetBinContent(fHistogram1, ContentBin(ibin))
                  k == GetBinContent(fHistogram2, ContentBin(ibin))
              IN  [pv EXCEPT !.histogram[ibin + 1] = k,
                             !.expectation[ibin + 1] = n * yexp,
                             !.terms = Append(@, <<n, k, yexp>>),
                             !.ibin = IF ibin + 1 < pv.nbins THEN ibin + 1 ELSE 0,
                             !.pc = IF ibin + 1 < pv.nbins THEN "start"
                                    ELSE IF pv.nIterations > 0 THEN "walk"
                                    ELSE "final"]
    /\ UNCHANGED <<histVars, funcVars, rndVars, fPValue, call, seen, thr>>

(* Lines 377-379 *)
WalkYexp(n, expectation) == IF n > 0 THEN expectation \div n ELSE 0

(* Line 385: the test for an efficiency at its limit *)
AtLimit(yexp) == ~(yexp > 0 \/ yexp < EffDen)

(* Line 391 *)
RatioUp(n, k, yexp) ==
    Div(Mul(Div(Double(n - k, 1), Double(k + 1, 1)), Eff(yexp)),
        Double(EffDen - yexp, EffDen))

(* Line 403 *)
RatioDown(n, k, yexp) ==
    Div(Mul(Div(Double(k, 1), Double(n - (k - 1), 1)),
            Double(EffDen - yexp, EffDen)),
        Eff(yexp))

(* Lines 369-412: one pass of the loop over the bins *)
PVWalkBin ==
    /\ pv.pc = "walk"
    /\ LET ibin == pv.ibin
           n == GetBinContent(fHistogram1, ContentBin(ibin))
           k == pv.histogram[ibin + 1]
           yexp == WalkYexp(n, pv.expectation[ibin + 1])
           s1 == RndmNext(fRandom)
           up == Less(Half, RndmValue(s1))
           s2 == RndmNext(s1)
           r == IF up THEN RatioUp(n, k, yexp) ELSE RatioDown(n, k, yexp)
           tries == ~AtLimit(yexp) /\ IF up THEN k < n ELSE k > 0
           walks == tries /\ Less(RndmValue(s2), r)
           moved == [pv EXCEPT !.histogram[ibin + 1] = IF up THEN k + 1 ELSE k - 1,
                               !.ratio = Mul(@, r)]
           after == IF walks THEN moved ELSE pv
       IN  /\ fRandom' = IF tries THEN s2 ELSE s1
           /\ pv' = [after EXCEPT !.ibin = IF ibin + 1 < pv.nbins THEN ibin + 1 ELSE 0,
                                  !.pc = IF ibin + 1 < pv.nbins THEN "walk" ELSE "round"]
    /\ UNCHANGED <<histVars, funcVars, fRandomSeed, fPValue, call, seen, thr>>

(* BCMath::LogApproxBinomial(n, k, p) is the very negative sentinel of     *)
(* spec section 4.1: p at or beyond 0 or 1 and k not at that extreme.      *)
IsSentinel(term) ==
    \/ term[3] <= 0 /\ term[2] # 0
    \/ term[3] >= EffDen /\ term[2] # term[1]

(* Line 420: logp < logp_start.  logp is logp_start + log(ratio); a        *)
(* sentinel in logp_start absorbs every finite log(ratio).                 *)
LogpBelowStart(locals) ==
    /\ \A i \in 1..Len(locals.terms) : ~IsSentinel(locals.terms[i])
    /\ IsFinite(locals.ratio)
    /\ Less(locals.ratio, Double(1, 1))

(* Lines 414-423: the end of one iteration *)
PVEndRound ==
    /\ pv.pc = "round"
    /\ pv' = [pv EXCEPT
                !.counter_pvalue = IF LogpBelowStart(pv) THEN @ + 1 ELSE @,
                !.iiter = @ + 1,
                !.pc = IF pv.iiter + 1 < pv.nIterations THEN "walk" ELSE "final"]
    /\ UNCHANGED <<histVars, funcVars, rndVars, fPValue, call, seen, thr>>

(* Lines 425-432.  A division by zero is undefined behaviour: 0.0 / 0.0 is *)
(* NaN in the default floating-point environment and a SIGFPE where the    *)
(* invalid-operation exception traps.                                      *)
PVFinish ==
    /\ pv.pc = "final"
    /\ \E trapped \in IF pv.nIterations = 0 THEN BOOLEAN ELSE {FALSE} :
         pv' = IF trapped
               THEN [pv EXCEPT !.pc = "crashed", !.divisor = pv.nIterations]
               ELSE [pv EXCEPT !.pc = "returned", !.ret = TRUE,
                               !.divisor = pv.nIterations,
                               !.pvalue = Div(Double(pv.counter_pvalue, 1),
                                              Double(pv.nIterations, 1))]
    /\ UNCHANGED <<histVars, funcVars, rndVars, fPValue, call, seen, thr>>

(* CalculatePValueFast(par, pvalue, pvalueCorrected, nIterations) called   *)
(* by the user of the fitter.                                              *)
CalculatePValueFast(par, nIterations) ==
    /\ pv' = PVBegin(par, nIterations)
    /\ call' = [Idle EXCEPT !.op = "CalculatePValueFast", !.par = par,
                            !.pc = "CalculatePValueFast"]
    /\ UNCHANGED <<histVars, funcVars, rndVars, fPValue, seen, thr>>

(* CalculatePValueFast returns to the user, or the process has crashed. *)
PVReturn ==
    /\ call.op = "CalculatePValueFast"
    /\ call.pc = "CalculatePValueFast"
    /\ pv.pc \in {"returned", "crashed"}
    /\ call' = [call EXCEPT !.pc = pv.pc, !.ret = pv.ret]
    /\ UNCHANGED <<histVars, funcVars, rndVars, fPValue, pv, seen, thr>>

-----------------------------------------------------------------------------
(* Specification SpecSet: a fitter built by BCEfficiencyFitter(name),      *)
(* lines 31-43, whose SetHistograms is called any number of times.  The    *)
(* arguments are null, a histogram with full bins on any axis, or a        *)
(* histogram with any contents on the plain axis.                          *)

SetPool == FullHists(Widths, Jitters) \cup AllHists({1}, {0}, {0}) \cup {NullHist}

(* The fitter BCEfficiencyFitter(name) builds, lines 31-43 *)
Constructed ==
    /\ fHistogram1 = NullHist
    /\ fHistogram2 = NullHist
    /\ fDataSet = NoDataSet
    /\ fFitFunctionIndex = <<-1, -1>>
    /\ fFitFunction = <<>>
    /\ fFlagIntegration = FALSE
    /\ fMCMCCurrentChain = -1
    /\ fPValue = Double(-1, 1)
    /\ call = Idle
    /\ pv = PVIdle
    /\ seen = NotSeen
    /\ thr = <<>>

InitSet ==
    /\ Constructed
    /\ fRandom = 0
    /\ fRandomSeed = 0

CallSetHistograms ==
    /\ call.op = "idle"
    /\ \E hist1 \in SetPool, hist2 \in SetPool : SetHistograms(hist1, hist2)

NextSet == CallSetHistograms \/ Return

SpecSet == InitSet /\ [][NextSet]_vars

(* What the interface requires of a pair of histograms (spec section 6):   *)
(* both exist, equal bin counts, every edge equal within epsilon, and no   *)
(* bin of hist1 below the same bin of hist2.                               *)
InvalidPair(hist1, hist2) ==
    \/ hist1 = NullHist
    \/ hist2 = NullHist
    \/ GetNbinsX(hist1) # GetNbinsX(hist2)
    \/ \E i \in 1..(GetNbinsX(hist1) + 1) :
          DiffersByMoreThanEpsilon(hist1, GetBinLowEdge(hist1, i),
                                   hist2, GetBinLowEdge(hist2, i))
    \/ \E i \in 1..GetNbinsX(hist1) :
          GetBinContent(hist1, i) < GetBinContent(hist2, i)

C1_Step ==
    (call.op = "idle" /\ call'.op = "SetHistograms") =>
        /\ InvalidPair(call'.hist1, call'.hist2) => ~call'.ret
        /\ ~call'.ret => UNCHANGED <<fHistogram1, fHistogram2, fDataSet>>
        /\ fHistogram1' # NullHist \/ fHistogram2' # NullHist
              => ~InvalidPair(fHistogram1', fHistogram2')

(* C1: SetHistograms returns false for every pair that has a null          *)
(* histogram, different bin counts, a bin low edge or the upper axis edge  *)
(* differing by more than epsilon, or a bin of hist1 below that of hist2;  *)
(* a call that returns false leaves fHistogram1, fHistogram2 and the data  *)
(* set as they were; only a valid pair is ever stored.                     *)
C1_SetHistogramsAllOrNothing == [][C1_Step]_vars

(* A pair of existing histograms was refused while the fitter held an      *)
(* earlier, valid pair. *)
C1_Witness ==
    /\ call.op = "SetHistograms"
    /\ ~call.ret
    /\ call.hist1 # NullHist
    /\ call.hist2 # NullHist
    /\ fHistogram1 # NullHist
    /\ fHistogram1 # call.hist1

-----------------------------------------------------------------------------
(* Specification SpecPV: a fitter built by                                 *)
(* BCEfficiencyFitter(hist1, hist2, func, name), lines 46-59, whose        *)
(* CalculatePValueFast is called any number of times.                      *)

(* BCFitter(func, name): the vector of model functions holds func. *)
BCFitterFunctions(func) == <<func>>

(* Lines 46-59 *)
ConstructedWith(hist1, hist2, func) ==
    LET ok == SetHistogramsCheck(hist1, hist2) = "ok"
    IN  /\ fHistogram1 = IF ok THEN hist1 ELSE NullHist
        /\ fHistogram2 = IF ok THEN hist2 ELSE NullHist
        /\ fDataSet = IF ok THEN NewDataSet(hist1) ELSE NoDataSet
        /\ fFitFunctionIndex = IF ok THEN <<0, 1>> ELSE <<-1, -1>>
        /\ fFitFunction = BCFitterFunctions(func)
        /\ fFlagIntegration = FALSE
        /\ fMCMCCurrentChain = -1
        /\ fPValue = Double(-1, 1)
        /\ call = Idle
        /\ pv = PVIdle
        /\ seen = NotSeen
        /\ thr = <<>>

PVPool == AllHists(Widths, {0}, 0..MaxCount) \cup {NullHist}

(* The seeds the generator is built with. *)
PVSeeds == {0, 2, 4, 6}

InitPV ==
    \E hist1 \in PVPool, hist2 \in PVPool, func \in Funcs, seed \in PVSeeds :
        /\ ConstructedWith(hist1, hist2, func)
        /\ fRandom = seed
        /\ fRandomSeed = seed

CallCalculatePValueFast ==
    /\ call.op = "idle"
    /\ \E par \in Pars, nIterations \in 0..MaxIter :
          CalculatePValueFast(par, nIterations)

NextPV ==
    \/ CallCalculatePValueFast
    \/ PVDefineBin
    \/ PVWalkBin
    \/ PVEndRound
    \/ PVFinish
    \/ PVReturn
    \/ Return

SpecPV == InitPV /\ [][NextPV]_vars

(* The starting distribution is defined: every entry has its term. *)
Started == pv.pc \in {"walk", "round", "final", "returned"} /\ Len(pv.terms) = pv.nbins

(* C5: a run with nIterations = 0 and both histograms present does not     *)
(* crash, returns true and never divides by a zero nIterations; a run with *)
(* nIterations >= 1 returns counter_pvalue / nIterations, within [0, 1].   *)
C5_ZeroIterationsGuarded ==
    (pv.pc \in {"returned", "crashed"} /\ Len(pv.terms) = pv.nbins /\ pv.nbins > 0) =>
        /\ pv.pc = "returned"
        /\ pv.ret
        /\ pv.divisor # 0
        /\ pv.nIterations >= 1 =>
              /\ pv.pvalue = Double(pv.counter_pvalue, pv.nIterations)
              /\ ~Less(pv.pvalue, Double(0, 1))
              /\ ~Less(Double(1, 1), pv.pvalue)

(* C7: for every bin the success probability of the starting distribution  *)
(* is the bin average Integral / (xmax - xmin) that the integration mode   *)
(* of LogLikelihood uses, at the parameters given (here: the parameters    *)
(* the function instance holds), and the expectation is n times it.        *)
C7_StartUsesBinAverage ==
    (Started /\ fFitFunction[1].par = pv.par) =>
        \A ibin \in 0..(pv.nbins - 1) :
            LET eff == BinEfficiency(MakeFunc(pv.par), fHistogram1, EdgeBin(ibin), TRUE)
            IN  /\ pv.terms[ibin + 1][3] = eff
                /\ pv.expectation[ibin + 1] = pv.terms[ibin + 1][1] * eff

(* C8: an entry whose efficiency p in the walk is <= 0 or >= 1 keeps the   *)
(* count it started with, after any number of rounds.                      *)
C8_LimitBinsSkipped ==
    Started =>
        \A ibin \in 0..(pv.nbins - 1) :
            LET n == GetBinContent(fHistogram1, ContentBin(ibin))
                p == WalkYexp(n, pv.expectation[ibin + 1])
            IN  (p <= 0 \/ p >= EffDen) =>
                    pv.histogram[ibin + 1] = pv.terms[ibin + 1][2]

(* C9: entry ibin starts from the successes k, and uses the trials n, of   *)
(* the regular bin ibin + 1 whose edges give its expectation.              *)
C9_EntriesUseTheirBin ==
    \A i \in 1..Len(pv.terms) :
        /\ pv.terms[i][1] = GetBinContent(fHistogram1, i)
        /\ pv.terms[i][2] = GetBinContent(fHistogram2, i)

C10_Step ==
    (pv.pc = "walk" /\ pv'.pc \in {"walk", "round"}) =>
        /\ \A i \in 1..pv.nbins :
              LET n == GetBinContent(fHistogram1, ContentBin(i - 1))
              IN  /\ 0 <= pv.histogram[i] /\ pv.histogram[i] <= n
                  /\ 0 <= pv'.histogram[i] /\ pv'.histogram[i] <= n
                  /\ Abs(pv'.histogram[i] - pv.histogram[i]) <= 1
        /\ pv'.expectation = pv.expectation
        /\ UNCHANGED <<fHistogram1, fHistogram2>>

(* C10: every toy entry stays within 0 .. n, n the trials count used for   *)
(* the entry; a step of the walk changes an entry by at most 1 and leaves  *)
(* the histograms and the expectation alone.                               *)
C10_ToyWithinTrials == [][C10_Step]_vars

-----------------------------------------------------------------------------
(* Fit(hist1, hist2, func), lines 184-203, and Fit(), lines 206-242 *)

(* BCFitter::SetFitFunction(func): the vector of model functions holds func *)
SetFitFunction(func) == <<func>>

(* Lines 209-218: the error Fit() reports before it computes, "ok" if none *)
FitCheck(hist1, hist2, functions) ==
    IF hist1 = NullHist \/ hist2 = NullHist THEN "histogram"
    ELSE IF Len(functions) = 0 THEN "function"
    ELSE "ok"

(* Fit(): lines 209-218, then the computation begins with MarginalizeAll. *)
Fit0 ==
    /\ call' = IF FitCheck(fHistogram1, fHistogram2, fFitFunction) = "ok"
               THEN [Idle EXCEPT !.op = "Fit", !.pc = "MarginalizeAll"]
               ELSE [Idle EXCEPT !.op = "Fit", !.ret = FALSE]
    /\ UNCHANGED <<histVars, funcVars, rndVars, fPValue, pv, seen, thr>>

(* Fit(hist1, hist2, func): lines 186-200, then Fit().  The result of      *)
(* SetHistograms (line 188) is not looked at.                              *)
Fit(hist1, hist2, func) ==
    LET begun == [Idle EXCEPT !.op = "Fit", !.hist1 = hist1, !.hist2 = hist2,
                              !.func = func]
    IN  /\ IF hist1 = NullHist \/ hist2 = NullHist
           THEN /\ call' = [begun EXCEPT !.ret = FALSE]
                /\ UNCHANGED <<histVars, fFitFunction>>
           ELSE /\ SetHistogramsEffect(hist1, hist2)
                /\ IF func.null
                   THEN /\ call' = [begun EXCEPT !.ret = FALSE]
                        /\ UNCHANGED fFitFunction
                   ELSE /\ fFitFunction' = SetFitFunction(func)
                        /\ call' =
                             IF FitCheck(fHistogram1', fHistogram2', fFitFunction') = "ok"
                             THEN [begun EXCEPT !.pc = "MarginalizeAll"]
                             ELSE [begun EXCEPT !.ret = FALSE]
        /\ UNCHANGED <<fFlagIntegration, fMCMCCurrentChain, rndVars, fPValue, pv,
                       seen, thr>>

(* Line 221: the engine samples the posterior. *)
FitMarginalizeAll ==
    /\ call.op = "Fit"
    /\ call.pc = "MarginalizeAll"
    /\ call' = [call EXCEPT !.pc = "FindMode", !.steps = @ \cup {"MarginalizeAll"}]
    /\ UNCHANGED <<histVars, funcVars, rndVars, fPValue, pv, seen, thr>>

(* Lines 225-229: the engine finds the global mode; the model function is  *)
(* left with the parameters of the engine's last evaluation.               *)
FitFindMode ==
    /\ call.op = "Fit"
    /\ call.pc = "FindMode"
    /\ \E mode \in Pars :
          /\ fFitFunction' = [fFitFunction EXCEPT ![1] = SetParameters(@, mode)]
          /\ call' = [call EXCEPT !.pc = "GetGlobalMode", !.par = mode,
                                  !.steps = @ \cup {"FindMode"}]
    /\ UNCHANGED <<histVars, fFlagIntegration, fMCMCCurrentChain, rndVars, fPValue,
                   pv, seen, thr>>

(* Line 232: CalculatePValueFast(GetGlobalMode(), pvalue, pvalueCorrected)  *)
(* with the default number of iterations, here MaxIter.                    *)
FitCalculatePValueFast ==
    /\ call.op = "Fit"
    /\ call.pc = "GetGlobalMode"
    /\ pv' = PVBegin(call.par, MaxIter)
    /\ call' = [call EXCEPT !.pc = "CalculatePValueFast",
                            !.steps = @ \cup {"CalculatePValueFast"}]
    /\ UNCHANGED <<histVars, funcVars, rndVars, fPValue, seen, thr>>

(* Lines 232-241 after CalculatePValueFast has returned *)
FitFinish ==
    /\ call.op = "Fit"
    /\ call.pc = "CalculatePValueFast"
    /\ pv.pc \in {"returned", "crashed"}
    /\ fPValue' = IF pv.pc = "returned" /\ pv.ret THEN pv.pvalue ELSE fPValue
    /\ call' = [call EXCEPT !.pc = pv.pc, !.ret = (pv.pc = "returned")]
    /\ UNCHANGED <<histVars, funcVars, rndVars, pv, seen, thr>>

-----------------------------------------------------------------------------
(* Specification Spec: a fitter built by BCEfficiencyFitter(name) whose    *)
(* public operations are called in any order, one at a time.               *)

FitPool == {MakeHist(1, 1, 0, <<0, 0>>)} \cup FullHists({1}, {0}) \cup {NullHist}

Init == InitSet

CallSetHistogramsOfFitPool ==
    /\ call.op = "idle"
    /\ \E hist1 \in FitPool, hist2 \in FitPool : SetHistograms(hist1, hist2)

CallSetFitFunction ==
    /\ call.op = "idle"
    /\ \E func \in Funcs :
          /\ fFitFunction' = SetFitFunction(func)
          /\ call' = [Idle EXCEPT !.op = "SetFitFunction", !.func = func]
    /\ UNCHANGED <<histVars, fFlagIntegration, fMCMCCurrentChain, rndVars, fPValue,
                   pv, seen, thr>>

CallLogLikelihood ==
    /\ call.op = "idle"
    /\ \E params \in Pars : LogLikelihood(params)

CallFit0 ==
    /\ call.op = "idle"
    /\ Fit0

CallFit ==
    /\ call.op = "idle"
    /\ \E hist1 \in FitPool, hist2 \in FitPool, func \in {NullFunc, MakeFunc(<<1, 0>>)} :
          Fit(hist1, hist2, func)

Next ==
    \/ CallSetHistogramsOfFitPool
    \/ CallSetFitFunction
    \/ CallLogLikelihood
    \/ CallFit0
    \/ CallFit
    \/ FitMarginalizeAll
    \/ FitFindMode
    \/ FitCalculatePValueFast
    \/ PVDefineBin
    \/ PVWalkBin
    \/ PVEndRound
    \/ PVFinish
    \/ FitFinish
    \/ Return

Spec == Init /\ [][Next]_vars

(* C2: a call Fit(hist1, hist2, func) with existing histograms that fail   *)
(* the validation of SetHistograms returns false and runs none of          *)
(* MarginalizeAll, FindMode and CalculatePValueFast, whatever histograms   *)
(* the fitter held before the call.                                        *)
C2_InvalidFitFailsFast ==
    (/\ call.op = "Fit"
     /\ call.hist1 # NullHist
     /\ call.hist2 # NullHist
     /\ SetHistogramsCheck(call.hist1, call.hist2) # "ok") =>
        /\ call.pc = "returned"
        /\ ~call.ret
        /\ call.steps = {}

(* C3: LogLikelihood called with the model function of the current chain   *)
(* absent (none set at all, none at the chain's index, or a null one) or a *)
(* histogram absent returns NaN, does not crash, reads no bin and assigns  *)
(* no parameters.                                                          *)
C3_AbsentInputsGiveNaN ==
    (/\ call.op = "LogLikelihood"
     /\ \/ ~InVector(ChainIndex(fMCMCCurrentChain))
        \/ fFitFunction[ChainIndex(fMCMCCurrentChain) + 1].null
        \/ fHistogram1 = NullHist
        \/ fHistogram2 = NullHist) =>
        /\ call.pc = "returned"
        /\ call.val = NaNValue
        /\ call.steps = {}

-----------------------------------------------------------------------------
(* Specification SpecRepeat: a fitter with a valid pair of histograms and  *)
(* a model function, whose user sets the seed, evaluates the likelihood    *)
(* and runs CalculatePValueFast, keeping the first result to compare the   *)
(* later ones with.                                                        *)

RepeatPool == {h \in AllHists({1}, {0}, 0..MaxCount) : GetNbinsX(h) = 1}

RepeatPars == {<<1, 0>>, <<2, 0>>}

RepeatSeeds == RndmStates

InitRepeat ==
    \E hist1 \in RepeatPool, hist2 \in RepeatPool, par \in RepeatPars :
        /\ SetHistogramsCheck(hist1, hist2) = "ok"
        /\ ConstructedWith(hist1, hist2, MakeFunc(par))
        /\ fRandom = 0
        /\ fRandomSeed = 0

(* BCIntegrate::SetRandomSeed(seed): fRandom.SetSeed(seed) *)
SetRandomSeed(seed) ==
    /\ fRandom' = seed % 8
    /\ fRandomSeed' = seed
    /\ call' = [Idle EXCEPT !.op = "SetRandomSeed"]
    /\ UNCHANGED <<histVars, funcVars, fPValue, pv, seen, thr>>

CallSetRandomSeed ==
    /\ call.op = "idle"
    /\ \E seed \in RepeatSeeds : SetRandomSeed(seed)

CallLogLikelihoodOfRepeatPars ==
    /\ call.op = "idle"
    /\ \E params \in RepeatPars : LogLikelihood(params)

CallCalculatePValueFastOfRepeatPars ==
    /\ call.op = "idle"
    /\ \E par \in RepeatPars, nIterations \in 0..MaxIter :
          CalculatePValueFast(par, nIterations)

(* The caller takes the result of a call other than CalculatePValueFast. *)
ReturnOther ==
    /\ call.op # "CalculatePValueFast"
    /\ Return

(* The caller takes the result of CalculatePValueFast and keeps the first  *)
(* one it gets, with the inputs and the seed of that run.                  *)
ReturnKeep ==
    /\ call.op = "CalculatePValueFast"
    /\ call.pc = "returned"
    /\ seen' = IF seen.nIterations = -1
               THEN [par |-> pv.par, nIterations |-> pv.nIterations,
                     fRandomSeed |-> pv.start.fRandomSeed,
                     pvalue |-> pv.pvalue, ret |-> pv.ret]
               ELSE seen
    /\ call' = Idle
    /\ pv' = PVIdle
    /\ UNCHANGED <<histVars, funcVars, rndVars, fPValue, thr>>

NextRepeat ==
    \/ CallSetRandomSeed
    \/ CallLogLikelihoodOfRepeatPars
    \/ CallCalculatePValueFastOfRepeatPars
    \/ PVDefineBin
    \/ PVWalkBin
    \/ PVEndRound
    \/ PVFinish
    \/ PVReturn
    \/ ReturnOther
    \/ ReturnKeep

SpecRepeat == InitRepeat /\ [][NextRepeat]_vars

(* C6: a run of CalculatePValueFast with the seed, the params argument and *)
(* the iteration count of an earlier run on the same histograms and model  *)
(* function returns what the earlier run returned.                         *)
C6_RepeatedRunsAgree ==
    (/\ call.op = "CalculatePValueFast"
     /\ call.pc = "returned"
     /\ seen.nIterations = pv.nIterations
     /\ seen.par = pv.par
     /\ seen.fRandomSeed = pv.start.fRandomSeed) =>
        /\ pv.ret = seen.ret
        /\ pv.pvalue = seen.pvalue

-----------------------------------------------------------------------------
(* Specification SpecChains: the sampling chains 0 .. MaxChain, one thread *)
(* each, evaluate LogLikelihood and FitFunction on one fitter.  Thread t   *)
(* runs chain t - 1.                                                       *)

Chains == 1..(MaxChain + 1)

ChainOf(t) == t - 1

ChainIdle == [pc |-> "idle", op |-> "none", c |-> -1, params |-> <<0, 0>>,
              val |-> NoValue]

ChainPool == {h \in AllHists({1}, {0}, {0}) : GetNbinsX(h) = 1}

InitChains ==
    /\ \E hist1 \in ChainPool, hist2 \in ChainPool, par \in RepeatPars :
          /\ SetHistogramsCheck(hist1, hist2) = "ok"
          /\ fHistogram1 = hist1
          /\ fHistogram2 = hist2
          /\ fDataSet = NewDataSet(hist1)
          /\ fFitFunction = [t \in Chains |-> MakeFunc(par)]
    /\ fFitFunctionIndex = <<0, 1>>
    /\ fFlagIntegration = FALSE
    /\ fMCMCCurrentChain = -1
    /\ fRandom = 0
    /\ fRandomSeed = 0
    /\ fPValue = Double(-1, 1)
    /\ call = Idle
    /\ pv = PVIdle
    /\ seen = NotSeen
    /\ thr = [t \in Chains |-> ChainIdle]

(* The engine, on the thread of a chain, makes the chain the current one   *)
(* before it evaluates a point of the chain.                               *)
ChainSetCurrent(t) ==
    /\ thr[t].pc = "idle"
    /\ fMCMCCurrentChain' = ChainOf(t)
    /\ thr' = [thr EXCEPT ![t].pc = "call"]
    /\ UNCHANGED <<histVars, fFitFunction, fFlagIntegration, rndVars, fPValue, call,
                   pv, seen>>

(* Lines 128-130 and 176: the invocation reads the current chain. *)
ChainEnter(t) ==
    /\ thr[t].pc = "call"
    /\ \E op \in {"LogLikelihood", "FitFunction"}, params \in RepeatPars :
          LET c == ChainIndex(fMCMCCurrentChain)
              absent == \/ fFitFunction[c + 1].null
                        \/ fHistogram1 = NullHist
                        \/ fHistogram2 = NullHist
          IN  thr' = [thr EXCEPT ![t] =
                        IF op = "LogLikelihood" /\ absent
                        THEN [ChainIdle EXCEPT !.pc = "returned", !.op = op, !.c = c,
                                               !.params = params, !.val = NaNValue]
                        ELSE [ChainIdle EXCEPT !.pc = "SetParameters", !.op = op,
                                               !.c = c, !.params = params]]
    /\ UNCHANGED <<histVars, funcVars, rndVars, fPValue, call, pv, seen>>

(* Lines 142 and 178 *)
ChainSetParameters(t) ==
    /\ thr[t].pc = "SetParameters"
    /\ fFitFunction' =
          [fFitFunction EXCEPT ![thr[t].c + 1] = SetParameters(@, thr[t].params)]
    /\ thr' = [thr EXCEPT ![t].pc = "Eval"]
    /\ UNCHANGED <<histVars, fFlagIntegration, fMCMCCurrentChain, rndVars, fPValue,
                   call, pv, seen>>

(* What an invocation returns when it evaluates the function instance f:   *)
(* the terms of lines 148-168, or f at the upper edge of the axis, line    *)
(* 180.                                                                    *)
ChainValue(op, f) ==
    IF op = "LogLikelihood"
    THEN Value(LogLikelihoodTerms(f, fFlagIntegration))
    ELSE Value(<<Eval(f, GetXmax(fHistogram1))>>)

(* Lines 148-170 and 180 *)
ChainEval(t) ==
    /\ thr[t].pc = "Eval"
    /\ thr' = [thr EXCEPT ![t].pc = "returned",
                          ![t].val = ChainValue(thr[t].op, fFitFunction[thr[t].c + 1])]
    /\ UNCHANGED <<histVars, funcVars, rndVars, fPValue, call, pv, seen>>

(* The engine takes the value. *)
ChainReturn(t) ==
    /\ thr[t].pc = "returned"
    /\ thr' = [thr EXCEPT ![t] = ChainIdle]
    /\ UNCHANGED <<histVars, funcVars, rndVars, fPValue, call, pv, seen>>

NextChains ==
    \E t \in Chains :
        \/ ChainSetCurrent(t)
        \/ ChainEnter(t)
        \/ ChainSetParameters(t)
        \/ ChainEval(t)
        \/ ChainReturn(t)

SpecChains == InitChains /\ [][NextChains]_vars

(* C4: an invocation made by chain c assigns to and evaluates the function *)
(* instance of chain c only, and returns the value of its own params.      *)
C4_ChainsUseOwnInstance ==
    \A t \in DOMAIN thr :
        /\ thr[t].pc \in {"SetParameters", "Eval", "returned"} =>
              thr[t].c = ChainOf(t)
        /\ thr[t].pc = "returned" =>
              thr[t].val = ChainValue(thr[t].op, MakeFunc(thr[t].params))

=============================================================================
